---- MODULE Spec2Model ----
(***************************************************************************)
(* A model of github.com/antst/go-syncmap: SyncMap[K, V], a Go map guarded *)
(* by one sync.RWMutex (syncmap.go), and lockedMap, the view handed to the *)
(* callback of DoLocked / DoLockedWithResult, whose methods touch the map  *)
(* without locking.                                                       *)
(*                                                                         *)
(* Goroutines are the threads 1..NThreads.  Every public method is a       *)
(* sequence of steps: the lock call, the statements of the body, and the   *)
(* deferred unlock.  A goroutine blocked in Lock() or RLock() is one whose *)
(* lock action is not enabled.  sync.RWMutex is modelled as Go implements  *)
(* it: Lock() first takes the writer mutex rw.w, which makes every later   *)
(* RLock() and Lock() wait, and then waits for the active readers to       *)
(* leave; Unlock() gives rw.w back.                                        *)
(*                                                                         *)
(* No step of a method reads its arguments before the lock is held, so the *)
(* method and arguments of a goroutine are drawn at the step that ends the *)
(* lock call; while it waits for the readers it is only known to write.    *)
(*                                                                         *)
(* Specifications: Spec has the point methods and the scoped calls with    *)
(* every method of the view; SpecAll adds Range, Map and Filter;           *)
(* SpecDisjoint has goroutines that keep to keys of their own;             *)
(* SpecSnapshot has the loops, callers that keep the maps they return, and *)
(* writers; SpecReenter has callbacks that call back into the Store.       *)
(***************************************************************************)
EXTENDS Integers, FiniteSets, Sequences, TLC

\* ------------------------------------------------------------------ bounds
NThreads == 2
NKeys == 2
MaxVal == 1

Threads == 1..NThreads
Keys == 1..NKeys
Vals == 0..MaxVal

\* The zero value of V: what a Go map read yields for an absent key.
ZeroValue == 0

VARIABLES
    Data,      \* m.Data: the map, a function whose domain is the present keys
    writer,    \* m.Mu: the goroutine that holds rw.w (0: nobody)
    readers,   \* m.Mu: the read locks each goroutine holds
    pc,        \* where each goroutine is
    op,        \* the method a goroutine is in, and its arguments
    loc,       \* the locals of that method
    res,       \* what the method returns
    abs,       \* a plain map, used by one goroutine, given the same calls
    balance    \* per key, insertions minus reported removals

vars == <<Data, writer, readers, pc, op, loc, res, abs, balance>>

\* ------------------------------------------------------- the built-in map
MakeMap == [x \in {} |-> ZeroValue]

\* A lookup that takes a stored zero value for an absent key.
MapGetZeroIsAbsent(d, k) ==
    IF k \in DOMAIN d /\ d[k] # ZeroValue THEN [v |-> d[k], ok |-> TRUE]
                                           ELSE [v |-> ZeroValue, ok |-> FALSE]

MapGet(d, k) ==
    IF k \in DOMAIN d THEN [v |-> d[k], ok |-> TRUE]
                      ELSE [v |-> ZeroValue, ok |-> FALSE]

\* An assignment that keeps the value of a key already present.
MapSetKeepExisting(d, k, v) ==
    [x \in (DOMAIN d) \cup {k} |-> IF x \in DOMAIN d THEN d[x] ELSE v]

\* An assignment that drops every other entry.
MapSetAlone(d, k, v) == [x \in {k} |-> v]

MapSet(d, k, v) == [x \in (DOMAIN d) \cup {k} |-> IF x = k THEN v ELSE d[x]]

\* A delete that clears the whole map.
MapDeleteAll(d, k) == [x \in {} |-> ZeroValue]

MapDelete(d, k) == [x \in (DOMAIN d) \ {k} |-> d[x]]

MapLen(d) == Cardinality(DOMAIN d)

\* ------------------------------------------------- caller-supplied functions
\* The transforms and predicates callers pass to Map and Filter, indexed by
\* a parameter c (the tests pass v * 2 and v > 2).
TransformFn(c, k, v) == (v + c * k) % (MaxVal + 1)

PredicateFn(c, k, v) == v >= c

\* --------------------------------------------------------------- the calls
NoOp == [name |-> "none", k |-> 0, v |-> 0]

NoRes == [v |-> ZeroValue, ok |-> FALSE, n |-> 0, m |-> MakeMap]

\* r: what the method has read so far (in a callback: what the last view
\* call returned); seen: the keys a loop has visited.
NoLoc == [r |-> NoRes, seen |-> {}]

PointCalls ==
    {[name |-> nm, k |-> k, v |-> v] :
        nm \in {"Store", "LoadOrStore"}, k \in Keys, v \in Vals}
    \cup {[name |-> nm, k |-> k, v |-> 0] :
        nm \in {"Load", "Remove", "LoadAndDelete"}, k \in Keys}
    \cup {[name |-> nm, k |-> 0, v |-> 0] :
        nm \in {"Purge", "Len", "DoLocked", "DoLockedWithResult"}}

BulkCalls ==
    {[name |-> "Range", k |-> 0, v |-> 0]}
    \cup {[name |-> nm, k |-> 0, v |-> c] : nm \in {"Map", "Filter"}, c \in Vals}

Calls == PointCalls \cup BulkCalls

\* Methods that write but open with m.Mu.RLock().
LockModeStoreShared(name) ==
    IF name \in {"Load", "Len", "Range", "Map", "Filter", "Store"} THEN "r" ELSE "w"

LockModeLoadOrStoreShared(name) ==
    IF name \in {"Load", "Len", "Range", "Map", "Filter", "LoadOrStore"} THEN "r" ELSE "w"

LockModeRemoveShared(name) ==
    IF name \in {"Load", "Len", "Range", "Map", "Filter", "Remove"} THEN "r" ELSE "w"

LockModeLoadAndDeleteShared(name) ==
    IF name \in {"Load", "Len", "Range", "Map", "Filter", "LoadAndDelete"} THEN "r" ELSE "w"

\* The lock call each method opens with: "w" for m.Mu.Lock(), "r" for m.Mu.RLock().
LockMode(name) ==
    IF name \in {"Load", "Len", "Range", "Map", "Filter"} THEN "r" ELSE "w"

Scoped(name) == name \in {"DoLocked", "DoLockedWithResult"}

\* ------------------------------------------------------------ sync.RWMutex
\* A lock whose writers do not exclude each other.
WriterFreeAlways == TRUE

\* Lock() got rw.w: no other writer holds or waits with it.
WriterFree == writer = 0

\* A Lock() that does not wait for the readers.
DrainedNoWait == TRUE

\* Lock() returns once the readers that were active have all left.
Drained == \A u \in Threads : readers[u] = 0

\* An RLock() that does not wait for the writer.
ReaderAdmittedAlways == TRUE

\* RLock() returns at once unless a writer holds rw.w (pending or active).
ReaderAdmitted == writer = 0

TypeOK ==
    /\ DOMAIN Data \subseteq Keys
    /\ \A k \in DOMAIN Data : Data[k] \in Vals
    /\ writer \in Threads \cup {0}
    /\ readers \in [Threads -> 0..2]
    /\ pc \in [Threads -> {"idle", "wdrain", "body", "body2", "unlock", "unwind", "panicked",
                         "holding", "reenter", "calling", "rnested", "rinner"}]
    /\ op \in [Threads -> Calls \cup {NoOp}]

Init ==
    /\ Data = MakeMap
    /\ writer = 0
    /\ readers = [t \in Threads |-> 0]
    /\ pc = [t \in Threads |-> "idle"]
    /\ op = [t \in Threads |-> NoOp]
    /\ loc = [t \in Threads |-> NoLoc]
    /\ res = [t \in Threads |-> NoRes]
    /\ abs = MakeMap
    /\ balance = [k \in Keys |-> 0]

ghosts == <<abs, balance>>

\* ------------------------------------------------------ locking and return
\* m.Mu.Lock(), first half: take rw.w and announce the writer.  The caller is
\* outside every method ("calling": it has called the method and waits in
\* the lock call), or it is a callback that calls into the Store.
Lock(t) ==
    /\ pc[t] \in {"idle", "calling", "reenter"}
    /\ WriterFree
    /\ writer' = t
    /\ pc' = [pc EXCEPT ![t] = "wdrain"]
    /\ UNCHANGED <<Data, readers, op, loc, res, ghosts>>

\* m.Mu.Lock(), second half: wait for the active readers; the lock is held,
\* and the body of the method, o, starts.
LockAcquire(t, o) ==
    /\ pc[t] = "wdrain"
    /\ o \in Calls
    /\ LockMode(o.name) = "w"
    /\ Drained
    /\ pc' = [pc EXCEPT ![t] = "body"]
    /\ op' = [op EXCEPT ![t] = o]
    /\ UNCHANGED <<Data, writer, readers, loc, res, ghosts>>

\* m.Mu.RLock()
RLock(t, o) ==
    /\ pc[t] \in {"idle", "calling", "reenter"}
    /\ o \in Calls
    /\ LockMode(o.name) = "r"
    /\ ReaderAdmitted
    /\ readers' = [readers EXCEPT ![t] = @ + 1]
    /\ pc' = [pc EXCEPT ![t] = "body"]
    /\ op' = [op EXCEPT ![t] = o]
    /\ UNCHANGED <<Data, writer, loc, res, ghosts>>

\* ------------------------------------------------- the reference object
\* What a plain map, used by one goroutine, does with call o: the map it
\* leaves and the result it gives.
Plain(o, d) ==
    CASE o.name = "Store" ->
           [d |-> [x \in (DOMAIN d) \cup {o.k} |-> IF x = o.k THEN o.v ELSE d[x]],
            r |-> NoRes]
      [] o.name = "Load" ->
           [d |-> d,
            r |-> IF o.k \in DOMAIN d THEN [NoRes EXCEPT !.v = d[o.k], !.ok = TRUE]
                                      ELSE NoRes]
      [] o.name = "LoadOrStore" ->
           IF o.k \in DOMAIN d
           THEN [d |-> d, r |-> [NoRes EXCEPT !.v = d[o.k], !.ok = TRUE]]
           ELSE [d |-> [x \in (DOMAIN d) \cup {o.k} |-> IF x = o.k THEN o.v ELSE d[x]],
                 r |-> [NoRes EXCEPT !.v = o.v]]
      [] o.name = "LoadAndDelete" ->
           [d |-> [x \in (DOMAIN d) \ {o.k} |-> d[x]],
            r |-> IF o.k \in DOMAIN d THEN [NoRes EXCEPT !.v = d[o.k], !.ok = TRUE]
                                      ELSE NoRes]
      [] o.name = "Remove" ->
           [d |-> [x \in (DOMAIN d) \ {o.k} |-> d[x]],
            r |-> [NoRes EXCEPT !.ok = o.k \in DOMAIN d]]
      [] o.name = "Purge" ->
           [d |-> [x \in {} |-> 0], r |-> NoRes]
      [] o.name = "Len" ->
           [d |-> d, r |-> [NoRes EXCEPT !.n = Cardinality(DOMAIN d)]]
      [] OTHER -> [d |-> d, r |-> NoRes]

Clamp(n) == IF n < -1 THEN -1 ELSE IF n > 2 THEN 2 ELSE n

\* The bookkeeping of a call that takes effect: o is the call, ok what it
\* reported (for Remove and LoadAndDelete: that it removed the key).
Effect(o, ok) ==
    /\ abs' = Plain(o, abs).d
    /\ balance' =
         [k \in Keys |->
            Clamp(balance[k]
                  + (IF k \notin DOMAIN abs /\ k \in DOMAIN Plain(o, abs).d THEN 1 ELSE 0)
                  - (IF o.name \in {"Remove", "LoadAndDelete"} /\ o.k = k /\ ok THEN 1 ELSE 0)
                  - (IF o.name = "Purge" /\ k \in DOMAIN abs THEN 1 ELSE 0))]

\* ------------------------------------------------------ the method bodies
At(t, name, where) == pc[t] = where /\ op[t].name = name

Goto(t, where) == pc' = [pc EXCEPT ![t] = where]

\* Store: m.Data[k] = v
StoreBody(t) ==
    /\ At(t, "Store", "body")
    /\ Data' = MapSet(Data, op[t].k, op[t].v)
    /\ Goto(t, "unlock")
    /\ Effect(op[t], FALSE)
    /\ UNCHANGED <<writer, readers, op, loc, res>>

\* Load: v, ok := m.Data[k]; return v, ok
LoadBody(t) ==
    /\ At(t, "Load", "body")
    /\ res' = [res EXCEPT ![t] = [@ EXCEPT !.v = MapGet(Data, op[t].k).v,
                                           !.ok = MapGet(Data, op[t].k).ok]]
    /\ Goto(t, "unlock")
    /\ Effect(op[t], FALSE)
    /\ UNCHANGED <<Data, writer, readers, op, loc>>

\* Remove: if _, ok := m.Data[k]; !ok { return false }
RemoveCheck(t) ==
    /\ At(t, "Remove", "body")
    /\ IF MapGet(Data, op[t].k).ok
       THEN /\ Goto(t, "body2")
            /\ UNCHANGED <<res, ghosts>>
       ELSE /\ res' = [res EXCEPT ![t] = [@ EXCEPT !.ok = FALSE]]
            /\ Goto(t, "unlock")
            /\ Effect(op[t], FALSE)
    /\ UNCHANGED <<Data, writer, readers, op, loc>>

\* Remove: delete(m.Data, k); return true
RemoveDelete(t) ==
    /\ At(t, "Remove", "body2")
    /\ Data' = MapDelete(Data, op[t].k)
    /\ res' = [res EXCEPT ![t] = [@ EXCEPT !.ok = TRUE]]
    /\ Goto(t, "unlock")
    /\ Effect(op[t], TRUE)
    /\ UNCHANGED <<writer, readers, op, loc>>

\* LoadOrStore: if v, ok := m.Data[key]; ok { return v, true }
LoadOrStoreCheck(t) ==
    /\ At(t, "LoadOrStore", "body")
    /\ IF MapGet(Data, op[t].k).ok
       THEN /\ res' = [res EXCEPT ![t] = [@ EXCEPT !.v = MapGet(Data, op[t].k).v,
                                                  !.ok = TRUE]]
            /\ Goto(t, "unlock")
            /\ Effect(op[t], FALSE)
       ELSE /\ Goto(t, "body2")
            /\ UNCHANGED <<res, ghosts>>
    /\ UNCHANGED <<Data, writer, readers, op, loc>>

\* LoadOrStore: m.Data[key] = value; return value, false
LoadOrStoreStore(t) ==
    /\ At(t, "LoadOrStore", "body2")
    /\ Data' = MapSet(Data, op[t].k, op[t].v)
    /\ res' = [res EXCEPT ![t] = [@ EXCEPT !.v = op[t].v, !.ok = FALSE]]
    /\ Goto(t, "unlock")
    /\ Effect(op[t], FALSE)
    /\ UNCHANGED <<writer, readers, op, loc>>

\* LoadAndDelete: v, ok := m.Data[key]; if !ok, straight to return v, ok
LoadAndDeleteRead(t) ==
    /\ At(t, "LoadAndDelete", "body")
    /\ loc' = [loc EXCEPT ![t] = [@ EXCEPT !.r.v = MapGet(Data, op[t].k).v,
                                           !.r.ok = MapGet(Data, op[t].k).ok]]
    /\ IF MapGet(Data, op[t].k).ok
       THEN /\ Goto(t, "body2")
            /\ UNCHANGED <<res, ghosts>>
       ELSE /\ res' = [res EXCEPT ![t] = [@ EXCEPT !.v = MapGet(Data, op[t].k).v,
                                                  !.ok = FALSE]]
            /\ Goto(t, "unlock")
            /\ Effect(op[t], FALSE)
    /\ UNCHANGED <<Data, writer, readers, op>>

\* LoadAndDelete: delete(m.Data, key); return v, ok
LoadAndDeleteDelete(t) ==
    /\ At(t, "LoadAndDelete", "body2")
    /\ Data' = MapDelete(Data, op[t].k)
    /\ res' = [res EXCEPT ![t] = [@ EXCEPT !.v = loc[t].r.v, !.ok = loc[t].r.ok]]
    /\ Goto(t, "unlock")
    /\ Effect(op[t], loc[t].r.ok)
    /\ UNCHANGED <<writer, readers, op, loc>>

\* A Purge that leaves the map as it is.
PurgeKeepsData(t) ==
    /\ At(t, "Purge", "body")
    /\ Data' = Data
    /\ Goto(t, "unlock")
    /\ Effect(op[t], FALSE)
    /\ UNCHANGED <<writer, readers, op, loc, res>>

\* Purge: m.Data = make(map[K]V)
PurgeBody(t) ==
    /\ At(t, "Purge", "body")
    /\ Data' = MakeMap
    /\ Goto(t, "unlock")
    /\ Effect(op[t], FALSE)
    /\ UNCHANGED <<writer, readers, op, loc, res>>

\* Len: return len(m.Data)
LenBody(t) ==
    /\ At(t, "Len", "body")
    /\ res' = [res EXCEPT ![t] = [@ EXCEPT !.n = MapLen(Data)]]
    /\ Goto(t, "unlock")
    /\ Effect(op[t], FALSE)
    /\ UNCHANGED <<Data, writer, readers, op, loc>>

\* A loop that may come back to an entry it has visited.
RangeVisitAgain(t, k, out) ==
    /\ At(t, "Range", "body")
    /\ k \in DOMAIN Data
    /\ out \in {"continue", "stop", "panic"}
    /\ loc' = [loc EXCEPT ![t] = [@ EXCEPT !.seen = @ \cup {k}]]
    /\ res' = [res EXCEPT ![t] = [@ EXCEPT !.n = @ + 1, !.m = MapSet(@, k, Data[k])]]
    /\ Goto(t, CASE out = "continue" -> "body" [] out = "stop" -> "unlock"
                 [] OTHER -> "unwind")
    /\ UNCHANGED <<Data, writer, readers, op, ghosts>>

\* Range: one turn of  for k, v := range m.Data { if !f(k, v) { break } }
\* The order is the Go runtime's; the visitor continues, stops or panics.
RangeVisit(t, k, out) ==
    /\ At(t, "Range", "body")
    /\ k \in (DOMAIN Data) \ loc[t].seen
    /\ out \in {"continue", "stop", "panic"}
    /\ loc' = [loc EXCEPT ![t] = [@ EXCEPT !.seen = @ \cup {k}]]
    /\ res' = [res EXCEPT ![t] = [@ EXCEPT !.n = @ + 1, !.m = MapSet(@, k, Data[k])]]
    /\ Goto(t, CASE out = "continue" -> "body" [] out = "stop" -> "unlock"
                 [] OTHER -> "unwind")
    /\ UNCHANGED <<Data, writer, readers, op, ghosts>>

\* Range: the loop has run out of entries
RangeEnd(t) ==
    /\ At(t, "Range", "body")
    /\ DOMAIN Data \subseteq loc[t].seen
    /\ Goto(t, "unlock")
    /\ UNCHANGED <<Data, writer, readers, op, loc, res, ghosts>>

\* A Map that transforms the Store's own map in place.
MapVisitInPlace(t, k, out) ==
    /\ At(t, "Map", "body")
    /\ k \in (DOMAIN Data) \ loc[t].seen
    /\ out \in {"value", "panic"}
    /\ loc' = [loc EXCEPT ![t] = [@ EXCEPT !.seen = @ \cup {k}]]
    /\ IF out = "value"
       THEN /\ res' = [res EXCEPT ![t] =
                         [@ EXCEPT !.m = MapSet(@, k, TransformFn(op[t].v, k, Data[k]))]]
            /\ Data' = MapSet(Data, k, TransformFn(op[t].v, k, Data[k]))
            /\ UNCHANGED pc
       ELSE /\ Goto(t, "unwind")
            /\ UNCHANGED <<res, Data>>
    /\ UNCHANGED <<writer, readers, op, ghosts>>

\* Map: one turn of  for k, v := range m.Data { data[k] = mapFn(k, v) }
MapVisit(t, k, out) ==
    /\ At(t, "Map", "body")
    /\ k \in (DOMAIN Data) \ loc[t].seen
    /\ out \in {"value", "panic"}
    /\ loc' = [loc EXCEPT ![t] = [@ EXCEPT !.seen = @ \cup {k}]]
    /\ IF out = "value"
       THEN /\ res' = [res EXCEPT ![t] =
                         [@ EXCEPT !.m = MapSet(@, k, TransformFn(op[t].v, k, Data[k]))]]
            /\ UNCHANGED pc
       ELSE /\ Goto(t, "unwind")
            /\ UNCHANGED res
    /\ UNCHANGED <<Data, writer, readers, op, ghosts>>

\* Map: return data
MapEnd(t) ==
    /\ At(t, "Map", "body")
    /\ DOMAIN Data \subseteq loc[t].seen
    /\ Goto(t, "unlock")
    /\ UNCHANGED <<Data, writer, readers, op, loc, res, ghosts>>

\* A Filter that copies every entry, whatever the predicate says.
FilterVisitKeepsAll(t, k, out) ==
    /\ At(t, "Filter", "body")
    /\ k \in (DOMAIN Data) \ loc[t].seen
    /\ out \in {"value", "panic"}
    /\ loc' = [loc EXCEPT ![t] = [@ EXCEPT !.seen = @ \cup {k}]]
    /\ IF out = "value"
       THEN /\ res' = [res EXCEPT ![t] = [@ EXCEPT !.m = MapSet(@, k, Data[k])]]
            /\ UNCHANGED pc
       ELSE /\ Goto(t, "unwind")
            /\ UNCHANGED res
    /\ UNCHANGED <<Data, writer, readers, op, ghosts>>

\* Filter: one turn of  for k, v := range m.Data { if predicateFn(k, v) { data[k] = v } }
FilterVisit(t, k, out) ==
    /\ At(t, "Filter", "body")
    /\ k \in (DOMAIN Data) \ loc[t].seen
    /\ out \in {"value", "panic"}
    /\ loc' = [loc EXCEPT ![t] = [@ EXCEPT !.seen = @ \cup {k}]]
    /\ IF out = "value"
       THEN /\ res' = [res EXCEPT ![t] =
                         [@ EXCEPT !.m = IF PredicateFn(op[t].v, k, Data[k])
                                         THEN MapSet(@, k, Data[k]) ELSE @]]
            /\ UNCHANGED pc
       ELSE /\ Goto(t, "unwind")
            /\ UNCHANGED res
    /\ UNCHANGED <<Data, writer, readers, op, ghosts>>

\* Filter: return data
FilterEnd(t) ==
    /\ At(t, "Filter", "body")
    /\ DOMAIN Data \subseteq loc[t].seen
    /\ Goto(t, "unlock")
    /\ UNCHANGED <<Data, writer, readers, op, loc, res, ghosts>>

\* ------------------------------------------------------------ the locked view
\* The methods of lockedMap: the map they leave and what they return.
lmLen(d) == [d |-> d, r |-> [NoRes EXCEPT !.n = MapLen(d)]]

lmLoad(d, key) ==
    [d |-> d, r |-> [NoRes EXCEPT !.v = MapGet(d, key).v, !.ok = MapGet(d, key).ok]]

lmStore(d, key, value) == [d |-> MapSet(d, key, value), r |-> NoRes]

lmLoadAndDelete(d, key) ==
    [d |-> IF MapGet(d, key).ok THEN MapDelete(d, key) ELSE d,
     r |-> [NoRes EXCEPT !.v = MapGet(d, key).v, !.ok = MapGet(d, key).ok]]

\* A Purge that replaces a map of the view's own and leaves the Store's.
lmPurgeDetached(d) == [d |-> d, r |-> NoRes]

lmPurge(d) == [d |-> MakeMap, r |-> NoRes]

lmRemove(d, k) ==
    IF ~MapGet(d, k).ok
    THEN [d |-> d, r |-> [NoRes EXCEPT !.ok = FALSE]]
    ELSE [d |-> MapDelete(d, k), r |-> [NoRes EXCEPT !.ok = TRUE]]

\* A LoadOrStore that stores also over a key that is present.
lmLoadOrStoreOverwrites(d, key, value) ==
    [d |-> MapSet(d, key, value), r |-> [NoRes EXCEPT !.v = value, !.ok = FALSE]]

lmLoadOrStore(d, key, value) ==
    IF MapGet(d, key).ok
    THEN [d |-> d, r |-> [NoRes EXCEPT !.v = MapGet(d, key).v, !.ok = TRUE]]
    ELSE [d |-> MapSet(d, key, value), r |-> [NoRes EXCEPT !.v = value, !.ok = FALSE]]

ViewCalls ==
    {o \in Calls : o.name \in {"Len", "Load", "Store", "LoadAndDelete", "Purge",
                               "Remove", "LoadOrStore"}}

lmCall(o, d) ==
    CASE o.name = "Len" -> lmLen(d)
      [] o.name = "Load" -> lmLoad(d, o.k)
      [] o.name = "Store" -> lmStore(d, o.k, o.v)
      [] o.name = "LoadAndDelete" -> lmLoadAndDelete(d, o.k)
      [] o.name = "Purge" -> lmPurge(d)
      [] o.name = "Remove" -> lmRemove(d, o.k)
      [] o.name = "LoadOrStore" -> lmLoadOrStore(d, o.k, o.v)

\* The loops of the view.  The order in which  for k, v := range lm.m.Data
\* takes the entries is the runtime's: ord lists the keys in that order.  The
\* visitor of Range returns false on its stop-th call (0: on none).
Orders(S) ==
    {s \in [1..Cardinality(S) -> S] : \A i, j \in DOMAIN s : s[i] = s[j] => i = j}

RECURSIVE lmRangeLoop(_, _, _, _)
lmRangeLoop(d, ord, stop, acc) ==
    IF ord = <<>> THEN acc
    ELSE LET k == Head(ord)
             called == [acc EXCEPT !.n = @ + 1, !.m = MapSet(@, k, d[k])]
         IN  IF called.n = stop THEN called
             ELSE lmRangeLoop(d, Tail(ord), stop, called)

lmRange(d, ord, stop) == [d |-> d, r |-> lmRangeLoop(d, ord, stop, NoRes)]

RECURSIVE lmFilterLoop(_, _, _, _)
lmFilterLoop(d, c, ord, data) ==
    IF ord = <<>> THEN data
    ELSE LET k == Head(ord)
         IN  lmFilterLoop(d, c, Tail(ord),
                          IF PredicateFn(c, k, d[k]) THEN MapSet(data, k, d[k]) ELSE data)

lmFilter(d, c, ord) == [d |-> d, r |-> [NoRes EXCEPT !.m = lmFilterLoop(d, c, ord, MakeMap)]]

RECURSIVE lmMapLoop(_, _, _, _)
lmMapLoop(d, c, ord, data) ==
    IF ord = <<>> THEN data
    ELSE LET k == Head(ord)
         IN  lmMapLoop(d, c, Tail(ord), MapSet(data, k, TransformFn(c, k, d[k])))

lmMap(d, c, ord) == [d |-> d, r |-> [NoRes EXCEPT !.m = lmMapLoop(d, c, ord, MakeMap)]]

lmLoop(o, d, ord, stop) ==
    CASE o.name = "Range" -> lmRange(d, ord, stop)
      [] o.name = "Filter" -> lmFilter(d, o.v, ord)
      [] o.name = "Map" -> lmMap(d, o.v, ord)

\* The callback calls Range, Filter or Map of its view.
ViewLoop(t, o, ord, stop) ==
    /\ pc[t] = "body"
    /\ Scoped(op[t].name)
    /\ o \in BulkCalls
    /\ ord \in Orders(DOMAIN Data)
    /\ stop \in 0..NKeys
    /\ o.name # "Range" => stop = 0
    /\ Data' = lmLoop(o, Data, ord, stop).d
    /\ loc' = [loc EXCEPT ![t] = [@ EXCEPT !.r = lmLoop(o, Data, ord, stop).r]]
    /\ Effect(o, FALSE)
    /\ UNCHANGED <<writer, readers, pc, op, res>>

\* A view method that gives the lock back when it returns.
ViewCallUnlocks(t, o) ==
    /\ pc[t] = "body"
    /\ Scoped(op[t].name)
    /\ o \in ViewCalls
    /\ Data' = lmCall(o, Data).d
    /\ loc' = [loc EXCEPT ![t] = [@ EXCEPT !.r = lmCall(o, Data).r]]
    /\ Effect(o, lmCall(o, Data).r.ok)
    /\ writer' = 0
    /\ UNCHANGED <<readers, pc, op, res>>

\* DoLocked / DoLockedWithResult: f(&lockedMap[K, V]{m: m}) is running and
\* calls a method of the view it was given.
ViewCall(t, o) ==
    /\ pc[t] = "body"
    /\ Scoped(op[t].name)
    /\ o \in ViewCalls
    /\ Data' = lmCall(o, Data).d
    /\ loc' = [loc EXCEPT ![t] = [@ EXCEPT !.r = lmCall(o, Data).r]]
    /\ Effect(o, lmCall(o, Data).r.ok)
    /\ UNCHANGED <<writer, readers, pc, op, res>>

\* What DoLockedWithResult returns when its callback returned rv: return f(...)
PassResult(rv) == rv

\* The callback returns (for DoLockedWithResult: the value rv).
CallbackReturn(t, rv) ==
    /\ pc[t] = "body"
    /\ Scoped(op[t].name)
    /\ rv \in Vals
    /\ op[t].name = "DoLocked" => rv = ZeroValue
    /\ loc' = [loc EXCEPT ![t] = [@ EXCEPT !.r = [NoRes EXCEPT !.v = rv]]]
    /\ res' = [res EXCEPT ![t] =
                 IF op[t].name = "DoLockedWithResult"
                 THEN [NoRes EXCEPT !.v = PassResult(rv)] ELSE NoRes]
    /\ Goto(t, "unlock")
    /\ UNCHANGED <<Data, writer, readers, op, ghosts>>

\* A panic that throws away the map the callback has worked on.
CallbackPanicPurges(t) ==
    /\ pc[t] = "body"
    /\ Scoped(op[t].name)
    /\ Goto(t, "unwind")
    /\ Data' = MakeMap
    /\ UNCHANGED <<writer, readers, op, loc, res, ghosts>>

\* The callback panics.
CallbackPanic(t) ==
    /\ pc[t] = "body"
    /\ Scoped(op[t].name)
    /\ Goto(t, "unwind")
    /\ UNCHANGED <<Data, writer, readers, op, loc, res, ghosts>>

\* ------------------------------------------------------ the deferred unlock
\* An Unlock() that is not deferred: a panic skips it.
UnwindUnlockSkipped(t) == writer

\* defer m.Mu.Unlock(): rw.w after the deferred call ran while the panic of
\* goroutine t unwinds the method.
UnwindUnlock(t) == 0

\* An RUnlock() that is not deferred: a panic skips it.
UnwindRUnlockSkipped(t) == readers[t]

\* defer m.Mu.RUnlock(): the read locks of t after the same.
UnwindRUnlock(t) == readers[t] - 1

\* m.Mu.Unlock(), deferred: it runs when the method returns, and when a
\* panic unwinds it; after it the caller has the result, or the panic.
Unlock(t) ==
    /\ pc[t] \in {"unlock", "unwind"}
    /\ LockMode(op[t].name) = "w"
    /\ writer' = IF pc[t] = "unlock" THEN 0 ELSE UnwindUnlock(t)
    /\ Goto(t, IF pc[t] = "unlock" THEN "idle" ELSE "panicked")
    /\ op' = [op EXCEPT ![t] = NoOp]
    /\ loc' = [loc EXCEPT ![t] = NoLoc]
    /\ res' = [res EXCEPT ![t] = NoRes]
    /\ UNCHANGED <<Data, readers, ghosts>>

\* m.Mu.RUnlock(), deferred
RUnlock(t) ==
    /\ pc[t] \in {"unlock", "unwind"}
    /\ LockMode(op[t].name) = "r"
    /\ readers' = [readers EXCEPT ![t] = IF pc[t] = "unlock" THEN @ - 1
                                         ELSE UnwindRUnlock(t)]
    /\ Goto(t, IF pc[t] = "unlock" THEN "idle" ELSE "panicked")
    /\ op' = [op EXCEPT ![t] = NoOp]
    /\ loc' = [loc EXCEPT ![t] = NoLoc]
    /\ res' = [res EXCEPT ![t] = NoRes]
    /\ UNCHANGED <<Data, writer, ghosts>>

\* The panic has reached the caller of the method, which recovers and goes on.
Recover(t) ==
    /\ pc[t] = "panicked"
    /\ Goto(t, "idle")
    /\ UNCHANGED <<Data, writer, readers, op, loc, res, ghosts>>

\* ------------------------------------------------------- the specification
\* The point methods and the scoped calls.
Next ==
    \E t \in Threads :
        \/ Lock(t)
        \/ \E o \in PointCalls : LockAcquire(t, o)
        \/ \E o \in PointCalls : RLock(t, o)
        \/ StoreBody(t)
        \/ LoadBody(t)
        \/ RemoveCheck(t)
        \/ RemoveDelete(t)
        \/ LoadOrStoreCheck(t)
        \/ LoadOrStoreStore(t)
        \/ LoadAndDeleteRead(t)
        \/ LoadAndDeleteDelete(t)
        \/ PurgeBody(t)
        \/ LenBody(t)
        \/ \E o \in ViewCalls : ViewCall(t, o)
        \/ \E o \in BulkCalls, ord \in Orders(DOMAIN Data) :
              \E stop \in (IF o.name = "Range" THEN 0..NKeys ELSE {0}) :
                  ViewLoop(t, o, ord, stop)
        \/ \E rv \in Vals : CallbackReturn(t, rv)
        \/ CallbackPanic(t)
        \/ Unlock(t)
        \/ RUnlock(t)
        \/ Recover(t)

Spec == Init /\ [][Next]_vars

\* The loops: Range, Map and Filter.
NextBulk ==
    \E t \in Threads :
        \/ \E o \in BulkCalls : RLock(t, o)
        \/ \E k \in Keys, out \in {"continue", "stop", "panic"} : RangeVisit(t, k, out)
        \/ RangeEnd(t)
        \/ \E k \in Keys, out \in {"value", "panic"} : MapVisit(t, k, out)
        \/ MapEnd(t)
        \/ \E k \in Keys, out \in {"value", "panic"} : FilterVisit(t, k, out)
        \/ FilterEnd(t)

\* Every method of SyncMap.
SpecAll == Init /\ [][Next \/ NextBulk]_vars

\* ------------------------------------------------- goroutines on disjoint keys
\* TestSyncMap/Concurrent access: goroutine id works on keys of its own,
\* "key<id>-<j>", with Store, Load and Remove; Len is called by any of them.
\* Here it also stores values of its own, so that a value tells who wrote it.
OwnKeys(t) == {k \in Keys : ((k - 1) % NThreads) + 1 = t}

OwnVals(t) == {v \in Vals : (v % NThreads) + 1 = t}

DisjointCalls(t) ==
    {o \in PointCalls :
        \/ o.name = "Store" /\ o.k \in OwnKeys(t) /\ o.v \in OwnVals(t)
        \/ o.name \in {"Load", "Remove"} /\ o.k \in OwnKeys(t)
        \/ o.name = "Len"}

NextDisjoint ==
    \E t \in Threads :
        \/ Lock(t)
        \/ \E o \in DisjointCalls(t) : LockAcquire(t, o)
        \/ \E o \in DisjointCalls(t) : RLock(t, o)
        \/ StoreBody(t)
        \/ LoadBody(t)
        \/ RemoveCheck(t)
        \/ RemoveDelete(t)
        \/ LenBody(t)
        \/ Unlock(t)
        \/ RUnlock(t)

SpecDisjoint == Init /\ [][NextDisjoint]_vars

\* A result that is the Store's own map, not a new one.
ResultIsAliased(name) == FALSE

\* data := make(map[K]V ...): the map that Map and Filter fill and return is
\* a new object, which the Store has no reference to.
ResultIsFresh(name) == name \in {"Map", "Filter"}

\* The map that the caller of Map or Filter holds after the return: the
\* object data, or, were data no new object, the Store's map.
HeldMap(t) == IF ResultIsFresh(op[t].name) THEN res[t].m ELSE Data

\* Map / Filter: the deferred RUnlock, and return data to a caller who keeps it.
ReturnMap(t) ==
    /\ pc[t] = "unlock"
    /\ op[t].name \in {"Map", "Filter"}
    /\ readers' = [readers EXCEPT ![t] = @ - 1]
    /\ Goto(t, "holding")
    /\ UNCHANGED <<Data, writer, op, loc, res, ghosts>>

\* The caller writes into the map it was given.
HeldWrite(t, k, v) ==
    /\ pc[t] = "holding"
    /\ k \in Keys /\ v \in Vals
    /\ MapGet(res[t].m, k) # [v |-> v, ok |-> TRUE]
    /\ res' = [res EXCEPT ![t] = [@ EXCEPT !.m = MapSet(@, k, v)]]
    /\ Data' = IF ResultIsFresh(op[t].name) THEN Data ELSE MapSet(Data, k, v)
    /\ UNCHANGED <<writer, readers, pc, op, loc, ghosts>>

\* The caller is done with the map.
HeldDrop(t) ==
    /\ pc[t] = "holding"
    /\ Goto(t, "idle")
    /\ op' = [op EXCEPT ![t] = NoOp]
    /\ loc' = [loc EXCEPT ![t] = NoLoc]
    /\ res' = [res EXCEPT ![t] = NoRes]
    /\ UNCHANGED <<Data, writer, readers, ghosts>>

\* Map and Filter with callers that keep the result, next to goroutines that
\* write the Store.
WriteCalls == {o \in PointCalls : o.name \in {"Store", "Remove", "Purge"}}

NextSnapshot ==
    \E t \in Threads :
        \/ Lock(t)
        \/ \E o \in WriteCalls : LockAcquire(t, o)
        \/ StoreBody(t)
        \/ RemoveCheck(t)
        \/ RemoveDelete(t)
        \/ PurgeBody(t)
        \/ Unlock(t)
        \/ \E o \in BulkCalls : RLock(t, o)
        \/ \E k \in Keys, out \in {"continue", "stop", "panic"} : RangeVisit(t, k, out)
        \/ RangeEnd(t)
        \/ \E k \in Keys, out \in {"value", "panic"} : MapVisit(t, k, out)
        \/ MapEnd(t)
        \/ \E k \in Keys, out \in {"value", "panic"} : FilterVisit(t, k, out)
        \/ FilterEnd(t)
        \/ RUnlock(t)
        \/ Recover(t)
        \/ ReturnMap(t)
        \/ \E k \in Keys, v \in Vals : HeldWrite(t, k, v)
        \/ HeldDrop(t)

SpecSnapshot == Init /\ [][NextSnapshot]_vars

\* ------------------------------------------- a callback that calls the Store
\* The callback of DoLocked / DoLockedWithResult calls a locking method of
\* the same Store: next comes that method's m.Mu.Lock() or m.Mu.RLock().
CallbackReenter(t) ==
    /\ pc[t] = "body"
    /\ Scoped(op[t].name)
    /\ Goto(t, "reenter")
    /\ UNCHANGED <<Data, writer, readers, op, loc, res, ghosts>>

NextReenter == \E t \in Threads : CallbackReenter(t)

SpecReenter == Init /\ [][Next \/ NextReenter]_vars

\* ------------------------------------------------------ calls that may wait
\* A goroutine calls a method of the Store; the method's first statement,
\* m.Mu.Lock() or m.Mu.RLock(), returns when the lock lets it.
Invoke(t) ==
    /\ pc[t] = "idle"
    /\ Goto(t, "calling")
    /\ UNCHANGED <<Data, writer, readers, op, loc, res, ghosts>>

\* The lock call of a waiting goroutine returns (for Lock(): its first half).
Acquire(t) ==
    /\ pc[t] = "calling"
    /\ \/ Lock(t)
       \/ \E o \in Calls : RLock(t, o)

\* What a goroutine does by itself once it is in its method: the rest of
\* Lock(), the statements of the body, the end of a callback, the deferred
\* unlock, and the recovery of a panic by the caller.
Proceed(t) ==
    \/ \E o \in Calls : LockAcquire(t, o)
    \/ StoreBody(t) \/ LoadBody(t) \/ RemoveCheck(t) \/ RemoveDelete(t)
    \/ LoadOrStoreCheck(t) \/ LoadOrStoreStore(t)
    \/ LoadAndDeleteRead(t) \/ LoadAndDeleteDelete(t)
    \/ PurgeBody(t) \/ LenBody(t)
    \/ \E k \in Keys, out \in {"continue", "stop", "panic"} : RangeVisit(t, k, out)
    \/ RangeEnd(t)
    \/ \E k \in Keys, out \in {"value", "panic"} : MapVisit(t, k, out)
    \/ MapEnd(t)
    \/ \E k \in Keys, out \in {"value", "panic"} : FilterVisit(t, k, out)
    \/ FilterEnd(t)
    \/ \E rv \in Vals : CallbackReturn(t, rv)
    \/ CallbackPanic(t)
    \/ Unlock(t) \/ RUnlock(t) \/ Recover(t)

NextLive ==
    \E t \in Threads :
        \/ Invoke(t)
        \/ Acquire(t)
        \/ Proceed(t)
        \/ \E o \in ViewCalls : ViewCall(t, o)

\* Scheduling: a goroutine that can go on by itself does (the Go scheduler
\* runs every runnable goroutine; callbacks return or panic), and a
\* goroutine in a lock call that the lock could let in again and again is
\* let in (sync.Mutex hands rw.w to a starving waiter, and Unlock() lets the
\* readers that wait in before the next writer).
SpecLive ==
    /\ Init
    /\ [][NextLive]_vars
    /\ \A t \in Threads : WF_vars(Proceed(t)) /\ SF_vars(Acquire(t))

\* ------------------------------------ a loop callback that reads the Store
\* The visitor of Range, the transform of Map or the predicate of Filter
\* calls Load or Len of the same Store: next comes that method's m.Mu.RLock().
VisitorCall(t) ==
    /\ pc[t] = "body"
    /\ op[t].name \in {"Range", "Map", "Filter"}
    /\ Goto(t, "rnested")
    /\ UNCHANGED <<Data, writer, readers, op, loc, res, ghosts>>

\* The m.Mu.RLock() of the nested call returns: a second read lock.
NestedRLock(t) ==
    /\ pc[t] = "rnested"
    /\ ReaderAdmitted
    /\ readers' = [readers EXCEPT ![t] = @ + 1]
    /\ Goto(t, "rinner")
    /\ UNCHANGED <<Data, writer, op, loc, res, ghosts>>

\* The nested Load or Len reads the map, its deferred RUnlock runs, and the
\* callback goes on with the loop.
NestedReturn(t) ==
    /\ pc[t] = "rinner"
    /\ readers' = [readers EXCEPT ![t] = @ - 1]
    /\ Goto(t, "body")
    /\ UNCHANGED <<Data, writer, op, loc, res, ghosts>>

NextNested ==
    \E t \in Threads :
        \/ Lock(t)
        \/ \E o \in WriteCalls : LockAcquire(t, o)
        \/ StoreBody(t)
        \/ RemoveCheck(t)
        \/ RemoveDelete(t)
        \/ PurgeBody(t)
        \/ Unlock(t)
        \/ \E o \in BulkCalls : RLock(t, o)
        \/ \E k \in Keys, out \in {"continue", "stop", "panic"} : RangeVisit(t, k, out)
        \/ RangeEnd(t)
        \/ \E k \in Keys, out \in {"value", "panic"} : MapVisit(t, k, out)
        \/ MapEnd(t)
        \/ \E k \in Keys, out \in {"value", "panic"} : FilterVisit(t, k, out)
        \/ FilterEnd(t)
        \/ RUnlock(t)
        \/ Recover(t)
        \/ VisitorCall(t)
        \/ NestedRLock(t)
        \/ NestedReturn(t)

SpecNested == Init /\ [][NextNested]_vars

\* ================================================================ properties
ExclusiveNames ==
    {"Store", "Remove", "Purge", "LoadOrStore", "LoadAndDelete", "DoLocked",
     "DoLockedWithResult"}

SharedNames == {"Load", "Len", "Range", "Map", "Filter"}

\* Goroutine t is inside a method: its lock call has returned and its
\* deferred unlock has not run.
Inside(t) == pc[t] \in {"body", "body2", "unlock", "unwind"}

\* The callback of DoLocked / DoLockedWithResult is running in goroutine t.
InCallback(t) == pc[t] = "body" /\ op[t].name \in {"DoLocked", "DoLockedWithResult"}

\* Goroutine t holds the lock in exclusive / in shared mode.
HoldsExclusive(t) ==
    /\ writer = t
    /\ pc[t] \notin {"idle", "wdrain", "panicked"}
    /\ \A u \in Threads : readers[u] = 0

HoldsShared(t) == readers[t] > 0 /\ (writer = 0 \/ pc[writer] = "wdrain")

\* The step that ends the body of method name in goroutine t: the method
\* takes effect and its result is fixed.
Finishes(t, name) ==
    /\ op[t].name = name
    /\ pc[t] \in {"body", "body2"}
    /\ pc'[t] = "unlock"

\* C1: mutual exclusion.  Two goroutines are inside methods of the Store at
\* the same time only if both methods are shared-mode ones; so while a
\* goroutine is inside an exclusive-mode method nobody else is inside any.
C1_MutualExclusion ==
    \A t \in Threads : \A u \in Threads \ {t} :
        (Inside(t) /\ Inside(u))
            => (op[t].name \in SharedNames /\ op[u].name \in SharedNames)

\* A writer has called Lock() and is kept out by a reader inside a loop.
C1_Witness ==
    \E t \in Threads : \E u \in Threads \ {t} :
        /\ Inside(t) /\ op[t].name \in {"Range", "Map", "Filter"}
        /\ pc[u] = "wdrain"

\* C2: the scoped call is atomic.  While the callback of DoLocked or
\* DoLockedWithResult runs, no other goroutine is inside, enters, or leaves a
\* method of the Store, and the map changes only by a view call of the
\* callback itself.
C2_CallbackAtomic ==
    [][\A t \in Threads : InCallback(t) =>
          /\ \A u \in Threads \ {t} :
                /\ pc[u] \in {"idle", "panicked"}
                /\ pc'[u] \in {"idle", "panicked"}
                /\ res'[u] = res[u]
          /\ Data' # Data =>
                \E o \in ViewCalls : /\ Data' = lmCall(o, Data).d
                                     /\ loc'[t].r = lmCall(o, Data).r
                                     /\ InCallback(t)']_vars

\* A callback has found a key through its view.
C2_Witness ==
    \E t \in Threads : InCallback(t) /\ loc[t].r.ok /\ Data # MakeMap

\* C3: a panic of the callback releases the lock.  Once the panic of a
\* DoLocked / DoLockedWithResult callback has reached the caller, that
\* goroutine holds the lock in no mode, and when no goroutine is inside a
\* method the lock is free, so that the next Lock() or RLock() gets it.
C3_PanicReleasesLock ==
    \A t \in Threads : pc[t] = "panicked" =>
        /\ writer # t
        /\ readers[t] = 0
        /\ (\A u \in Threads : pc[u] \in {"idle", "panicked"})
              => (writer = 0 /\ \A u \in Threads : readers[u] = 0)

\* After the failed call of t, goroutine u took the exclusive lock and ran
\* the body of its method.
C3_Witness ==
    \E t \in Threads : \E u \in Threads \ {t} :
        /\ pc[t] = "panicked"
        /\ pc[u] = "unlock" /\ op[u].name \in ExclusiveNames

\* C4: linearizability of Store, Load, LoadOrStore, LoadAndDelete, Remove,
\* Purge and Len.  Each call takes effect at one step between its invocation
\* and its return; there it returns what a plain map, given the calls in the
\* order of these steps, returns, and the Store's map is that plain map.
C4_Linearizable ==
    /\ [](Data = abs)
    /\ [][\A t \in Threads :
            \A name \in {"Store", "Load", "LoadOrStore", "LoadAndDelete", "Remove",
                         "Purge", "Len"} :
                Finishes(t, name) => res'[t] = Plain(op[t], abs).r]_vars

\* A Load has found a key while a writer waits for it to leave.
C4_Witness ==
    \E t \in Threads : \E u \in Threads \ {t} :
        /\ pc[t] = "unlock" /\ op[t].name = "Load" /\ res[t].ok
        /\ pc[u] = "wdrain"

\* The next statement of goroutine t reads / writes m.Data.
ReadsData(t) ==
    pc[t] = "body" /\ op[t].name \in {"Load", "Len", "Remove", "LoadOrStore",
                                      "LoadAndDelete", "Range", "Map", "Filter"}

WritesData(t) ==
    \/ pc[t] = "body" /\ op[t].name \in {"Store", "Purge"}
    \/ pc[t] = "body2"

\* C5: every access to the map is made under the lock.  A goroutine about to
\* read m.Data holds the lock, shared or exclusive; one about to write it, or
\* running a callback with its view, holds the lock exclusively.
C5_AccessUnderLock ==
    \A t \in Threads :
        /\ ReadsData(t) => (HoldsShared(t) \/ HoldsExclusive(t))
        /\ (WritesData(t) \/ InCallback(t)) => HoldsExclusive(t)

\* A callback has counted a non-empty map through its view.
C5_Witness ==
    \E t \in Threads : InCallback(t) /\ HoldsExclusive(t) /\ loc[t].r.n > 0

\* C6: Store, then Load.  Store(k, v) leaves k present with value v, whether
\* or not k was present before; and a Load(k) returns, with found = true, the
\* value of the last write to k (abs[k]: v after Store(k, v)).
C6_StoreThenLoad ==
    [][\A t \in Threads :
          /\ Finishes(t, "Store") =>
                (op[t].k \in DOMAIN Data' /\ Data'[op[t].k] = op[t].v)
          /\ (Finishes(t, "Load") /\ op[t].k \in DOMAIN abs) =>
                (res'[t].ok /\ res'[t].v = abs[op[t].k])]_vars

\* A Load has returned the largest value.
C6_Witness ==
    \E t \in Threads :
        pc[t] = "unlock" /\ op[t].name = "Load" /\ res[t].ok /\ res[t].v = MaxVal

\* C7: Load reports found exactly for the present keys.  found is true iff
\* the last write to k left it present (whatever its value, zero included),
\* and with found = false the value is the zero value.
C7_LoadFound ==
    [][\A t \in Threads : Finishes(t, "Load") =>
          /\ res'[t].ok <=> op[t].k \in DOMAIN abs
          /\ ~res'[t].ok => res'[t].v = ZeroValue]_vars

\* A Load has found a key whose value is the zero value.
C7_Witness ==
    \E t \in Threads :
        pc[t] = "unlock" /\ op[t].name = "Load" /\ res[t].ok /\ res[t].v = ZeroValue

\* C8: LoadOrStore, the first writer wins.  LoadOrStore(k, v) returns
\* loaded = false iff k is absent when it takes effect, and then stores v;
\* otherwise it returns the value k has and changes nothing.  Either way the
\* value it returns is the value of k afterwards.
C8_FirstWriterWins ==
    [][\A t \in Threads : Finishes(t, "LoadOrStore") =>
          /\ res'[t].ok <=> op[t].k \in DOMAIN abs
          /\ res'[t].v = (IF op[t].k \in DOMAIN abs THEN abs[op[t].k] ELSE op[t].v)
          /\ op[t].k \in DOMAIN Data' /\ Data'[op[t].k] = res'[t].v
          /\ op[t].k \in DOMAIN abs => Data' = Data]_vars

\* A LoadOrStore has returned the value of an earlier writer, not its own.
C8_Witness ==
    \E t \in Threads :
        /\ pc[t] = "unlock" /\ op[t].name = "LoadOrStore"
        /\ res[t].ok /\ res[t].v # op[t].v

\* C9: Remove reports true once per insertion.  Remove(k) returns true iff k
\* is present when it takes effect; k is absent afterwards; a Remove that
\* returns false changes nothing.  And for every key the Remove and
\* LoadAndDelete calls that reported a removal never outnumber the times
\* the key went from absent to present.
C9_RemoveOnce ==
    /\ [](\A k \in Keys : balance[k] >= 0)
    /\ [][\A t \in Threads : Finishes(t, "Remove") =>
            /\ res'[t].ok <=> op[t].k \in DOMAIN Data
            /\ op[t].k \notin DOMAIN Data'
            /\ ~res'[t].ok => Data' = Data]_vars

\* A Remove has removed a key.
C9_Witness ==
    \E t \in Threads :
        /\ pc[t] = "unlock" /\ op[t].name = "Remove" /\ res[t].ok
        /\ balance[op[t].k] = 0

\* Load(k) and then Remove(k) on map d, as the bodies of Load and Remove do
\* them: the result of the Load and the map the Remove leaves.
LoadThenRemove(d, k) ==
    [r |-> MapGet(d, k), d |-> IF MapGet(d, k).ok THEN MapDelete(d, k) ELSE d]

\* C10: LoadAndDelete is Load and Remove in one step.  Where it takes effect
\* it returns what Load(k) returns on the map as it is there and leaves the
\* map Remove(k) leaves; and between its read and its delete the map does not
\* change.
C10_LoadAndDeleteAtomic ==
    [][\A t \in Threads :
          /\ Finishes(t, "LoadAndDelete") =>
                /\ res'[t].v = LoadThenRemove(Data, op[t].k).r.v
                /\ res'[t].ok = LoadThenRemove(Data, op[t].k).r.ok
                /\ Data' = LoadThenRemove(Data, op[t].k).d
          /\ (At(t, "LoadAndDelete", "body2") /\ Data' # Data) =>
                pc'[t] = "unlock"]_vars

\* A LoadAndDelete has returned the value of a key and removed it.
C10_Witness ==
    \E t \in Threads :
        /\ pc[t] = "unlock" /\ op[t].name = "LoadAndDelete" /\ res[t].ok
        /\ op[t].k \notin DOMAIN Data

\* C11: Purge empties the map.  From any state, when Purge takes effect the
\* map is empty: a Len on it gives 0 and a Load of any key gives (zero,
\* false).  On an empty map it changes nothing, and a Purge whose body has
\* started can always finish.  The map stays usable: storing (k, v) in the
\* purged map makes k loadable with v.
C11_PurgeEmpties ==
    /\ [](\A t \in Threads : At(t, "Purge", "body") => ENABLED PurgeBody(t))
    /\ [][\A t \in Threads : Finishes(t, "Purge") =>
            /\ DOMAIN Data' = {}
            /\ MapLen(Data') = 0
            /\ \A k \in Keys : MapGet(Data', k) = [v |-> ZeroValue, ok |-> FALSE]
            /\ DOMAIN Data = {} => Data' = Data
            /\ \A k \in Keys, v \in Vals :
                  MapGet(MapSet(Data', k, v), k) = [v |-> v, ok |-> TRUE]]_vars

\* A Purge has taken effect and is about to give the lock back.
C11_Witness ==
    \E t \in Threads :
        /\ pc[t] = "unlock" /\ op[t].name = "Purge" /\ writer = t
        /\ DOMAIN Data = {} /\ DOMAIN abs = {}

\* C12: Map.  The map that Map(f) returns has exactly the keys of the Store's
\* map, each key k with value v mapped to f(k, v); and the Store's map is the
\* same from the moment Map holds the lock until it returns.
C12_MapTransforms ==
    [][\A t \in Threads :
          /\ Finishes(t, "Map") =>
                res'[t].m = [k \in DOMAIN Data |-> TransformFn(op[t].v, k, Data[k])]
          /\ (op[t].name = "Map" /\ Inside(t)) => Data' = Data]_vars

\* A Map has returned a map with the Store's keys and other values.
C12_Witness ==
    \E t \in Threads :
        /\ pc[t] = "unlock" /\ op[t].name = "Map"
        /\ DOMAIN res[t].m = DOMAIN Data /\ DOMAIN Data = Keys
        /\ \E k \in Keys : res[t].m[k] # Data[k]

\* C13: Filter.  The map that Filter(p) returns holds exactly the entries
\* (k, v) of the Store's map with p(k, v), values as they are: no entry that
\* fails p, none that the Store lacks; and the Store's map is the same from
\* the moment Filter holds the lock until it returns.
C13_FilterSelects ==
    [][\A t \in Threads :
          /\ Finishes(t, "Filter") =>
                /\ DOMAIN res'[t].m =
                      {k \in DOMAIN Data : PredicateFn(op[t].v, k, Data[k])}
                /\ \A k \in DOMAIN res'[t].m : res'[t].m[k] = Data[k]
          /\ (op[t].name = "Filter" /\ Inside(t)) => Data' = Data]_vars

\* A Filter has returned some entries of the Store and left out others.
C13_Witness ==
    \E t \in Threads :
        /\ pc[t] = "unlock" /\ op[t].name = "Filter"
        /\ DOMAIN res[t].m # {}
        /\ DOMAIN res[t].m # DOMAIN Data

\* C14: Range.  Every call of the visitor gets an entry of the Store's map,
\* key and value, that it has not had before, so the calls made (res.n) are
\* as many as the entries visited (res.m).  The loop ends in one of two ways:
\* the visitor has continued every time, and then it has had every entry
\* exactly once and nothing else; or the visitor says stop on its N-th call,
\* N <= Len, and no call follows.
C14_RangeVisits ==
    /\ [](\A t \in Threads : (op[t].name = "Range" /\ Inside(t)) =>
              /\ res[t].n = Cardinality(DOMAIN res[t].m)
              /\ res[t].n <= MapLen(Data)
              /\ \A k \in DOMAIN res[t].m : k \in DOMAIN Data /\ res[t].m[k] = Data[k])
    /\ [][\A t \in Threads :
            /\ (op[t].name = "Range" /\ Inside(t) /\ res'[t] # res[t] /\ Inside(t)') =>
                  /\ pc[t] = "body"
                  /\ res'[t].n = res[t].n + 1
                  /\ \E k \in (DOMAIN Data) \ (DOMAIN res[t].m) :
                        res'[t].m = [x \in (DOMAIN res[t].m) \cup {k} |-> Data[x]]
            /\ Finishes(t, "Range") =>
                  \/ res'[t] = res[t] /\ res[t].n = MapLen(Data) /\ res[t].m = Data
                  \/ res'[t].n = res[t].n + 1
            /\ (op[t].name = "Range" /\ Inside(t)) => Data' = Data]_vars

\* A visitor has said stop on its first call, with more entries to come.
C14_Witness ==
    \E t \in Threads :
        /\ pc[t] = "unlock" /\ op[t].name = "Range"
        /\ res[t].n = 1 /\ MapLen(Data) = NKeys

\* The entry of key k in map d.
EntryOf(d, k) == IF k \in DOMAIN d THEN <<d[k]>> ELSE <<>>

\* C15: goroutines on disjoint keys.  When every goroutine calls Store, Load
\* and Remove on keys of its own only, then under every interleaving: the
\* entry of a key changes only where a Store or Remove of its owner takes
\* effect, so the last write to it is its owner's own last write; the
\* owner's Load returns that write, (v, true) after Store(k, v) and not found
\* after Remove(k), and a value found is one the owner stored; and a Len that
\* takes effect when no other goroutine is in a call returns the number of
\* keys whose last write left them present.
C15_DisjointKeys ==
    [][\A t \in Threads :
          /\ \A k \in OwnKeys(t) :
                (EntryOf(Data', k) # EntryOf(Data, k) \/ EntryOf(abs', k) # EntryOf(abs, k))
                    => /\ op[t].k = k
                       /\ Finishes(t, "Store") \/ Finishes(t, "Remove")
          /\ Finishes(t, "Load") =>
                /\ op[t].k \in OwnKeys(t)
                /\ <<res'[t].v, res'[t].ok>> =
                      (IF op[t].k \in DOMAIN abs THEN <<abs[op[t].k], TRUE>>
                                                 ELSE <<ZeroValue, FALSE>>)
                /\ res'[t].ok => res'[t].v \in OwnVals(t)
          /\ (Finishes(t, "Len") /\ \A u \in Threads \ {t} : pc[u] = "idle") =>
                res'[t].n = Cardinality(DOMAIN abs)]_vars

\* A goroutine has loaded what it stored while another one, with a key of
\* its own in the map, is in a call.
C15_Witness ==
    \E t \in Threads : \E u \in Threads \ {t} :
        /\ pc[t] = "unlock" /\ op[t].name = "Load"
        /\ res[t].ok /\ res[t].v \in OwnVals(t)
        /\ pc[u] = "wdrain"
        /\ OwnKeys(u) \cap DOMAIN Data # {}

\* C16: the result and the writes of a scoped call.  DoLockedWithResult
\* returns the value its callback returned.  Every write made through the
\* view (Store, LoadOrStore, Remove, LoadAndDelete, Purge) is made to the
\* Store's map: during and after the callback the Store's map is the plain
\* map that has had all these writes, the deferred unlock leaves it so, and a
\* later Load or Len of any goroutine returns what that plain map returns.
C16_CallbackResultAndWrites ==
    /\ [](\A t \in Threads :
            (Scoped(op[t].name) /\ pc[t] \in {"body", "unlock", "unwind"}) => Data = abs)
    /\ [][\A t \in Threads :
            /\ Finishes(t, "DoLockedWithResult") => res'[t].v = loc'[t].r.v
            /\ (Scoped(op[t].name) /\ pc[t] \in {"unlock", "unwind"}) => Data' = Data
            /\ Finishes(t, "Load") =>
                  <<res'[t].v, res'[t].ok>> = <<Plain(op[t], abs).r.v, Plain(op[t], abs).r.ok>>
            /\ Finishes(t, "Len") => res'[t].n = Plain(op[t], abs).r.n]_vars

\* DoLockedWithResult is returning a non-zero value of its callback, which
\* has left an entry in the map.
C16_Witness ==
    \E t \in Threads :
        /\ pc[t] = "unlock" /\ op[t].name = "DoLockedWithResult"
        /\ res[t].v = MaxVal /\ loc[t].r.v = MaxVal
        /\ DOMAIN Data # {}

\* C17: the view's methods do what the Store's methods do.  When a method of
\* the Store takes effect, its result and the map it leaves are those of the
\* view's method of the same name, called with the same arguments on the map
\* the Store's method started from (the map does not change between its
\* start and the step that ends it).  For Map and Filter this holds for every
\* order of iteration; what a Range of the Store has visited when it ends is
\* what the view's Range visits for some order and some stopping call, and
\* the view's Range makes one call for each of the entries it visits, with
\* the value the entry has, as the Store's Range does.
C17_ViewEquivalent ==
    [][\A t \in Threads :
          /\ \A name \in {"Load", "Store", "LoadOrStore", "LoadAndDelete", "Remove",
                          "Purge", "Len"} :
                Finishes(t, name) => /\ res'[t] = lmCall(op[t], Data).r
                                     /\ Data' = lmCall(op[t], Data).d
          /\ \A name \in {"Map", "Filter"} :
                Finishes(t, name) =>
                    \A ord \in Orders(DOMAIN Data) :
                        /\ res'[t].m = lmLoop(op[t], Data, ord, 0).r.m
                        /\ Data' = lmLoop(op[t], Data, ord, 0).d
          /\ Finishes(t, "Range") =>
                \E ord \in Orders(DOMAIN Data), stop \in 0..NKeys :
                    /\ res'[t].n = lmLoop(op[t], Data, ord, stop).r.n
                    /\ res'[t].m = lmLoop(op[t], Data, ord, stop).r.m
                    /\ Data' = lmLoop(op[t], Data, ord, stop).d
          /\ (InCallback(t) /\ InCallback(t)' /\ loc'[t].r.n > 0 /\ DOMAIN loc'[t].r.m # {}) =>
                /\ loc'[t].r.n = Cardinality(DOMAIN loc'[t].r.m)
                /\ \A k \in DOMAIN loc'[t].r.m : k \in DOMAIN Data /\ loc'[t].r.m[k] = Data[k]
                /\ Data' = Data
          /\ (Inside(t) /\ ~Scoped(op[t].name) /\ Data' # Data) => pc'[t] = "unlock"]_vars

\* A callback has visited every entry of a non-empty map with the Range of
\* its view.
C17_Witness ==
    \E t \in Threads :
        /\ InCallback(t)
        /\ DOMAIN Data = Keys
        /\ loc[t].r.n = NKeys /\ loc[t].r.m = Data

\* C18: the loops see one map, and the maps they return are the caller's.
\* From the moment Range, Map or Filter holds the shared lock until it lets
\* go, the Store's map does not change, so that everything the call has
\* visited or put into its result so far agrees with the map as it is now:
\* no write of another goroutine shows in part of the result only.  The map
\* that Map or Filter returned changes only by the writes of the caller that
\* holds it, and no step changes both it and the Store's map.
C18_SnapshotAndCopy ==
    /\ [](\A t \in Threads : (Inside(t) /\ op[t].name \in {"Range", "Map", "Filter"}) =>
              /\ DOMAIN res[t].m \subseteq loc[t].seen
              /\ loc[t].seen \subseteq DOMAIN Data
              /\ \A k \in DOMAIN res[t].m :
                    res[t].m[k] = (IF op[t].name = "Map"
                                   THEN TransformFn(op[t].v, k, Data[k]) ELSE Data[k])
              /\ op[t].name = "Filter" =>
                    \A k \in DOMAIN res[t].m : PredicateFn(op[t].v, k, Data[k]))
    /\ [][\A t \in Threads :
            /\ (Inside(t) /\ op[t].name \in {"Range", "Map", "Filter"}) => Data' = Data
            /\ (pc[t] = "holding" /\ pc'[t] = "holding") =>
                  /\ HeldMap(t)' # HeldMap(t) => Data' = Data
                  /\ HeldMap(t)' # HeldMap(t) =>
                        \A u \in Threads \ {t} :
                            pc'[u] = pc[u] /\ res'[u] = res[u] /\ loc'[u] = loc[u]]_vars

\* A caller holds the map that Map or Filter gave it; since then it, or the
\* Store, has been written, and another goroutine is inside a Store method.
C18_Witness ==
    \E t \in Threads : \E u \in Threads \ {t} :
        /\ pc[t] = "holding"
        /\ DOMAIN HeldMap(t) # DOMAIN Data
        /\ pc[u] = "unlock" /\ op[u].name \in {"Store", "Remove", "Purge"}

\* C19: the lock is not reentrant.  Once the callback of DoLocked or
\* DoLockedWithResult has called a locking method of the same Store, shared
\* or exclusive, that call stays in its lock call for ever: the goroutine
\* never leaves it, so neither call returns; it keeps the exclusive lock; and
\* no other goroutine gets inside a method.
C19_NotReentrant ==
    [][\A t \in Threads : pc[t] = "reenter" =>
          /\ pc'[t] = "reenter"
          /\ writer = t /\ writer' = t
          /\ \A u \in Threads \ {t} : ~Inside(u) /\ ~Inside(u)']_vars

\* A callback that has written the map is stuck in a call of the Store.
C19_Witness ==
    \E t \in Threads :
        /\ pc[t] = "reenter" /\ writer = t
        /\ DOMAIN Data # {}

CanStep(t) == ENABLED Acquire(t) \/ ENABLED Proceed(t)

\* C21: progress.  With callbacks that end and do not call back into the
\* Store, under the scheduling of SpecLive: in no reachable state are all
\* goroutines that have called a method unable to go on; every call gets the
\* lock; a writer that waits for the readers gets it (new readers wait
\* behind it, so readers cannot keep it out); and every goroutine inside a
\* method leaves it with the lock released.
C21_Progress ==
    /\ []((\E t \in Threads : pc[t] # "idle") =>
             (\E t \in Threads : pc[t] # "idle" /\ CanStep(t)))
    /\ \A t \in Threads : (pc[t] = "calling") ~> Inside(t)
    /\ \A t \in Threads : (pc[t] = "wdrain") ~> (pc[t] = "body" /\ writer = t)
    /\ \A t \in Threads :
          Inside(t) ~> (pc[t] \in {"idle", "panicked"} /\ writer # t /\ readers[t] = 0)

\* A writer waits for a reader to leave while it keeps the next call out.
C21_Witness ==
    \E t \in Threads : \E u \in Threads \ {t} :
        /\ pc[t] = "wdrain" /\ readers[u] = 1 /\ Inside(u)

\* The loops: Range, Map, Filter.
LoopNames == {"Range", "Map", "Filter"}

\* C22: a panic in a loop releases the read lock.  When the visitor of
\* Range, the transform of Map or the predicate of Filter panics, the
\* deferred RUnlock gives back the read lock of that call before the panic
\* reaches the caller, and neither the panic nor the unwinding changes the
\* Store's map.  A read lock is held by goroutines inside a method only, so a
\* writer whose Lock() waits for the readers, with no goroutine inside any
\* more, is let in.
C22_LoopPanicReleasesLock ==
    /\ [](\A t \in Threads : ~Inside(t) => readers[t] = 0)
    /\ [](\A t \in Threads :
            (pc[t] = "wdrain" /\ \A u \in Threads : ~Inside(u)) =>
                ENABLED (\E o \in Calls : LockAcquire(t, o)))
    /\ [][\A t \in Threads : (op[t].name \in LoopNames /\ Inside(t)) =>
            /\ Data' = Data
            /\ (pc[t] = "unwind" /\ pc'[t] # "unwind") =>
                  /\ pc'[t] = "panicked"
                  /\ readers'[t] = readers[t] - 1
                  /\ readers'[t] = 0]_vars

\* The callback of a loop has panicked after the first entry; the read lock
\* is still held, and a writer waits for it.
C22_Witness ==
    \E t \in Threads : \E u \in Threads \ {t} :
        /\ pc[t] = "unwind" /\ op[t].name \in LoopNames
        /\ loc[t].seen # {} /\ readers[t] = 1
        /\ pc[u] = "wdrain"

\* C23: no rollback.  When the callback of DoLocked / DoLockedWithResult
\* panics, the writes it has made through the view stay: the panic and the
\* deferred unlock leave the Store's map as the callback's last write left
\* it, which is the plain map that has had every write made so far, and that
\* is the map a Load or Len of any goroutine reads afterwards.
C23_NoRollback ==
    /\ [](\A t \in Threads : pc[t] \in {"unwind", "panicked"} => Data = abs)
    /\ [][\A t \in Threads :
            /\ (InCallback(t) /\ pc'[t] = "unwind") => (Data' = Data /\ abs' = abs)
            /\ (Scoped(op[t].name) /\ pc[t] = "unwind") => (Data' = Data /\ abs' = abs)
            /\ (pc[t] = "panicked" /\ pc'[t] = "idle") => Data' = Data
            /\ \A u \in Threads \ {t} :
                  (pc[t] = "panicked" /\ Finishes(u, "Load")) =>
                      <<res'[u].v, res'[u].ok>> = <<MapGet(abs, op[u].k).v,
                                                    MapGet(abs, op[u].k).ok>>
            /\ \A u \in Threads \ {t} :
                  (pc[t] = "panicked" /\ Finishes(u, "Len")) =>
                      res'[u].n = Cardinality(DOMAIN abs)]_vars

\* A callback has stored a new entry through its view, with LoadOrStore, and
\* then panicked; the entry is in the map.
C23_Witness ==
    \E t \in Threads :
        /\ pc[t] = "unwind" /\ Scoped(op[t].name)
        /\ loc[t].r.v = MaxVal /\ ~loc[t].r.ok
        /\ \E k \in DOMAIN Data : Data[k] = MaxVal

\* C24: nested read locking.  A callback of Range, Map or Filter that calls
\* Load or Len of the same Store gets its second read lock when no goroutine
\* has called Lock(), and the nested call then returns into the loop with the
\* first read lock still held.  But once another goroutine has called
\* Lock(), the nested RLock() waits behind that writer and the writer waits
\* for the loop's read lock: neither ever moves, the loop keeps its read lock
\* and the writer keeps its place, whatever the other goroutines do.
C24_NestedReadDeadlock ==
    /\ [](\A t \in Threads :
            /\ (pc[t] = "rnested" /\ writer = 0) => ENABLED NestedRLock(t)
            /\ pc[t] = "rinner" => (readers[t] = 2 /\ ENABLED NestedReturn(t))
            /\ (pc[t] = "rnested" /\ writer # 0) =>
                  /\ pc[writer] = "wdrain"
                  /\ ~ENABLED NestedRLock(t)
                  /\ ~ENABLED (\E o \in Calls : LockAcquire(writer, o)))
    /\ [][\A t \in Threads :
            /\ (pc[t] = "rinner" /\ pc'[t] # "rinner") =>
                  (pc'[t] = "body" /\ readers'[t] = 1)
            /\ (pc[t] = "rnested" /\ writer # 0) =>
                  /\ pc'[t] = "rnested"
                  /\ writer' = writer /\ pc'[writer] = "wdrain"
                  /\ readers'[t] = readers[t]]_vars

\* The callback of a loop waits in a nested RLock() behind a writer that
\* waits for the loop to end.
C24_Witness ==
    \E t \in Threads : \E u \in Threads \ {t} :
        /\ pc[t] = "rnested" /\ readers[t] = 1
        /\ pc[u] = "wdrain" /\ writer = u

\* Maps a and b have the same entry for every key but k.
SameBut(a, b, k) == \A x \in Keys \ {k} : EntryOf(a, x) = EntryOf(b, x)

\* Call o is one that must leave map d as it is.
LeavesAll(o, d) ==
    \/ o.name \in {"Load", "Len", "Range", "Map", "Filter"}
    \/ o.name = "LoadOrStore" /\ o.k \in DOMAIN d
    \/ o.name \in {"Remove", "LoadAndDelete"} /\ o.k \notin DOMAIN d

\* The number of entries of a and of b differ by one at most.
LenWithinOne(a, b) ==
    MapLen(a) - MapLen(b) \in {-1, 0, 1}

\* C25: the frame of the point operations.  On the Store: where Store,
\* LoadOrStore, Remove or LoadAndDelete of key k takes effect, every key but
\* k keeps its presence and value and the length changes by one at most;
\* LoadOrStore of a present key, Remove and LoadAndDelete of an absent key
\* change nothing; no step of these four before the last changes the map;
\* and the map does not change while Load, Len, Range, Map or Filter is
\* inside.  On the view: the same holds of each view method, applied to the
\* map as it is in any reachable state, and every step of a callback that
\* changes the map is such a call, or a Purge.
C25_Frame ==
    /\ [](\A o \in ViewCalls :
            /\ o.name \in {"Store", "LoadOrStore", "Remove", "LoadAndDelete"} =>
                  /\ SameBut(lmCall(o, Data).d, Data, o.k)
                  /\ LenWithinOne(lmCall(o, Data).d, Data)
            /\ LeavesAll(o, Data) => lmCall(o, Data).d = Data)
    /\ [](\A o \in BulkCalls : \A ord \in Orders(DOMAIN Data), stop \in 0..NKeys :
            lmLoop(o, Data, ord, stop).d = Data)
    /\ [][\A t \in Threads :
            /\ \A name \in {"Store", "LoadOrStore", "Remove", "LoadAndDelete"} :
                  /\ Finishes(t, name) =>
                        /\ SameBut(Data', Data, op[t].k)
                        /\ LenWithinOne(Data', Data)
                        /\ LeavesAll(op[t], Data) => Data' = Data
                  /\ (At(t, name, "body") /\ pc'[t] = "body2") => Data' = Data
            /\ (Inside(t) /\ op[t].name \in {"Load", "Len", "Range", "Map", "Filter"}) =>
                  Data' = Data
            /\ (InCallback(t) /\ Data' # Data) =>
                  \/ DOMAIN Data' = {}
                  \/ \E k \in Keys : SameBut(Data', Data, k) /\ LenWithinOne(Data', Data)]_vars

\* A Store has taken effect on one key while the other keys are present,
\* one of them with another value.
C25_Witness ==
    \E t \in Threads :
        /\ pc[t] = "unlock" /\ op[t].name = "Store"
        /\ DOMAIN Data = Keys
        /\ \E k \in Keys \ {op[t].k} : Data[k] # op[t].v

====
